---- MODULE Spec2Model ----
(***************************************************************************)
(* State-machine model of the WebRTC broadcast manager                     *)
(* (server/service/stream/webrtc/manager.go): the client registry guarded  *)
(* by a sync.RWMutex, the two atomic "sending" flags, the signaling tasks  *)
(* that call AddClient / RemoveClient / StartVideoStream /                 *)
(* StartAudioStream, and the sendVideoStream / sendAudioStream goroutines. *)
(* Every statement of manager.go that touches shared state is one step.    *)
(* A second specification, UpgradeSpec, models do_upgrade of               *)
(* kvmapp/system/install-kvmapp.sh on the three directories it moves.      *)
(***************************************************************************)
EXTENDS Integers, Sequences, FiniteSets, TLC

\* ---------------------------------------------------------------- bounds
MaxLoops == 2        \* goroutine slots per media kind
MaxClients == 2      \* *Client values ever passed to AddClient
MaxCalls == 4        \* calls made on the manager and writes to screen.FPS
MaxUnits == 2        \* non-empty units the media source hands out

\* ------------------------------------------------------------- constants
Second == 1000000000       \* time.Second in nanoseconds
Millisecond == 1000000     \* time.Millisecond in nanoseconds
AudioFrameMs == 20         \* frameDuration := 20 * time.Millisecond
DefaultFPS == 30           \* screen.FPS after common.CheckScreen()

Handles == {"ws1", "ws2"}          \* *websocket.Conn keys
Tasks == Handles                   \* one signaling goroutine per connection
AudioNegotiated == {"ws1"}         \* connections whose offer carries audio
Rates == {0, 30, 60}               \* values written to screen.FPS
Results == {-1, 0}                 \* status codes returned by ReadH264
Sizes == {0, 1}                    \* len(data) returned by ReadH264
Clients == 1..MaxClients           \* *Client values
LoopIds == 1..MaxLoops
NoClient == 0                      \* key absent from m.clients
NoTask == "none"

VARIABLES
  clients,        \* m.clients : map[*websocket.Conn]*Client
  mutexW,         \* m.mutex, writer side: the task holding Lock()
  mutexR,         \* m.mutex, reader side: the loops holding RLock()
  videoSending,   \* m.videoSending (int32, atomic)
  audioSending,   \* m.audioSending (int32, atomic)
  screenFPS,      \* screen.FPS, the shared configured frame rate
  task,           \* per signaling goroutine: position and arguments
  vloop,          \* per sendVideoStream goroutine: position and locals
  aloop,          \* per sendAudioStream goroutine: position and locals
  crashed,        \* the process died (runtime fatal error or panic)
  hasAudio,       \* clients whose track.audio != nil
  extDone,        \* clients whose track.updateExtension() has returned
  nextClient,     \* number of *Client values created so far
  calls,          \* number of calls and screen.FPS writes made so far
  units,          \* number of non-empty units read from the source
  vlog,           \* history: the writeVideo calls, in call order
  alog,           \* history: the writeAudio calls, in call order
  hist,           \* history: counters the properties refer to
  install         \* install-kvmapp.sh: position, directories, package

vars == <<clients, mutexW, mutexR, videoSending, audioSending, screenFPS,
          task, vloop, aloop, crashed, hasAudio, extDone, nextClient,
          calls, units, vlog, alog, hist, install>>

\* the variables of the broadcast manager
managerVars == <<clients, mutexW, mutexR, videoSending, audioSending,
                 screenFPS, task, vloop, aloop, crashed, hasAudio, extDone,
                 nextClient, calls, units, vlog, alog, hist>>

\* ------------------------------------------------------------- helpers
Registered == {h \in Handles : clients[h] # NoClient}
Live == {clients[h] : h \in Registered}
MapLen(m) == Cardinality({h \in Handles : m[h] # NoClient})

ActiveV == {i \in LoopIds : vloop[i].pc # "none"}
ActiveA == {i \in LoopIds : aloop[i].pc # "none"}
FreeSlot(loops) == CHOOSE i \in LoopIds :
                      /\ loops[i].pc = "none"
                      /\ \A j \in LoopIds : loops[j].pc = "none" => i <= j

Max(a, b) == IF a >= b THEN a ELSE b

\* a tick interval rounded down to whole milliseconds
MillisecondDuration(fps) == (1000 \div fps) * Millisecond

\* time.Second / time.Duration(fps): int64 division, fps > 0
TickDuration(fps) == Second \div fps

\* an audio frame duration taken from the video frame rate
FrameFromVideoRate == Second \div Max(screenFPS, 1)

\* frameDuration := 20 * time.Millisecond
FrameDuration == AudioFrameMs * Millisecond

IdleTask == [pc |-> "idle", ws |-> "ws1", client |-> NoClient, mark |-> 0]
NoVideoLoop == [pc |-> "none", fps |-> 0, duration |-> 0, ticker |-> 0,
                n |-> 0, data |-> 0, sdur |-> 0, start |-> 0,
                snap |-> {}, visited |-> {}, cur |-> NoClient,
                failed |-> {}]
NoAudioLoop == [pc |-> "none", ticker |-> 0]

\* a write lock that does not wait for the readers
LockIgnoresReaders == mutexW = NoTask

\* sync.RWMutex: Lock() needs no writer and no reader, RLock() no writer
CanLock == mutexW = NoTask /\ mutexR = {}

\* a read lock that can be taken while a writer holds the mutex
RLockIgnoresWriter == TRUE

\* sync.RWMutex: RLock() needs no writer
CanRLock == mutexW = NoTask

\* a write lock that is not released
UnlockSkipped(holder) == holder

\* m.mutex.Unlock() by the task holding the write lock: the holder after it
Unlock(holder) == NoTask

\* a read lock that is kept after the count was read
RUnlockSkipped(readers, me) == readers

\* m.mutex.RUnlock() by the reader me: the readers that remain
RUnlock(readers, me) == readers \ {me}

\* --------------------------------------------------------------- Init
\* NewWebRTCManager(): empty map, both flags 0, unlocked mutex
ManagerInit ==
  /\ clients = [h \in Handles |-> NoClient]
  /\ mutexW = NoTask
  /\ mutexR = {}
  /\ videoSending = 0
  /\ audioSending = 0
  /\ screenFPS = DefaultFPS
  /\ task = [t \in Tasks |-> IdleTask]
  /\ vloop = [i \in LoopIds |-> NoVideoLoop]
  /\ aloop = [i \in LoopIds |-> NoAudioLoop]
  /\ crashed = FALSE
  /\ hasAudio = {}
  /\ extDone = {}
  /\ nextClient = 0
  /\ calls = 0
  /\ units = 0
  /\ vlog = <<>>
  /\ alog = <<>>
  \* history: AddClient calls returned; the largest addsDone seen at the
  \* start of a StartVideoStream call that has returned; a video loop has
  \* ended; the kinds for which a Start call found the flag set; the
  \* clients inserted while a video loop ran, with no StartVideoStream
  \* call since; the audio-track clients registered at an audio tick; the
  \* video loop now starting or running was started on an empty registry
  \* that has stayed empty; the clients deleted by a RemoveClient call
  \* that has returned; the handles whose last AddClient or RemoveClient
  \* call to have released the lock is an AddClient; the clients that
  \* were stored under a handle when an AddClient call assigned to it
  /\ hist = [addsDone |-> 0, vEnsured |-> 0, vExited |-> FALSE,
             refused |-> {}, late |-> {}, aDue |-> {}, cold |-> FALSE,
             removed |-> {}, present |-> {}, replaced |-> {}]

\* install-kvmapp.sh has not been started
NoUpgrade == [pc |-> "off", kvmapp |-> "none", backup |-> "none",
              cache |-> "none", backedUp |-> FALSE, cause |-> "none",
              pkg |-> [found |-> FALSE, magic |-> "other", unzip |-> FALSE,
                       intact |-> FALSE, extracts |-> FALSE, moves |-> FALSE]]

Init ==
  /\ ManagerInit
  /\ install = NoUpgrade

\* ------------------------------------------------- signaling task steps
\* AddClient, entry: the task hands in its connection and a fresh *Client
\* (with an audio track if the connection negotiated one) and the call
\* begins client.track.updateExtension()
AddClient_call(t) ==
  /\ ~crashed
  /\ task[t].pc = "idle"
  /\ calls < MaxCalls
  /\ nextClient < MaxClients
  /\ task' = [task EXCEPT ![t] = [pc |-> "add_ext", ws |-> t,
                                  client |-> nextClient + 1, mark |-> 0]]
  /\ nextClient' = nextClient + 1
  /\ hasAudio' = IF t \in AudioNegotiated
                 THEN hasAudio \cup {nextClient + 1} ELSE hasAudio
  /\ calls' = calls + 1
  /\ UNCHANGED <<install, clients, mutexW, mutexR, videoSending, audioSending,
                 screenFPS, vloop, aloop, crashed, extDone, units, vlog, alog, hist>>

\* an extension update that leaves the track as it was
ExtensionSkipped(done, c) == done

\* client.track.updateExtension(): the clients whose update has completed
ExtensionUpdated(done, c) == done \cup {c}

\* client.track.updateExtension() returns
AddClient_updateExtension(t) ==
  /\ ~crashed
  /\ task[t].pc = "add_ext"
  /\ extDone' = ExtensionUpdated(extDone, task[t].client)
  /\ task' = [task EXCEPT ![t].pc = "add_lock"]
  /\ UNCHANGED <<install, clients, mutexW, mutexR, videoSending, audioSending,
                 screenFPS, vloop, aloop, crashed, hasAudio, nextClient,
                 calls, units, vlog, alog, hist>>

\* m.mutex.Lock()
AddClient_Lock(t) ==
  /\ ~crashed
  /\ task[t].pc = "add_lock"
  /\ CanLock
  /\ mutexW' = t
  /\ task' = [task EXCEPT ![t].pc = "add_insert"]
  /\ UNCHANGED <<install, clients, mutexR, videoSending, audioSending, screenFPS,
                 vloop, aloop, crashed, hasAudio, extDone, nextClient,
                 calls, units, vlog, alog, hist>>

\* an assignment that keeps the session a registered handle already has
InsertIfAbsent(m, ws, c) == IF m[ws] = NoClient THEN [m EXCEPT ![ws] = c] ELSE m

\* m.clients[ws] = client: the map after the assignment
Insert(m, ws, c) == [m EXCEPT ![ws] = c]

\* m.clients[ws] = client
AddClient_insert(t) ==
  /\ ~crashed
  /\ task[t].pc = "add_insert"
  /\ clients' = Insert(clients, task[t].ws, task[t].client)
  /\ task' = [task EXCEPT ![t].pc = "add_unlock"]
  /\ hist' = [hist EXCEPT !.late = IF ActiveV # {}
                                   THEN @ \cup {task[t].client} ELSE @,
                          !.cold = FALSE,
                          !.replaced = @ \cup ({clients[task[t].ws]}
                                                 \ {NoClient})]
  /\ UNCHANGED <<install, mutexW, mutexR, videoSending, audioSending, screenFPS,
                 vloop, aloop, crashed, hasAudio, extDone, nextClient,
                 calls, units, vlog, alog>>

\* m.mutex.Unlock()
AddClient_Unlock(t) ==
  /\ ~crashed
  /\ task[t].pc = "add_unlock"
  /\ mutexW' = Unlock(mutexW)
  /\ task' = [task EXCEPT ![t].pc = "add_log"]
  /\ hist' = [hist EXCEPT !.present = @ \cup {task[t].ws}]
  /\ UNCHANGED <<install, clients, mutexR, videoSending, audioSending, screenFPS,
                 vloop, aloop, crashed, hasAudio, extDone, nextClient,
                 calls, units, vlog, alog>>

\* log.Debugf(..., len(m.clients)): unlocked read of the map size; return
AddClient_log(t) ==
  /\ ~crashed
  /\ task[t].pc = "add_log"
  /\ task' = [task EXCEPT ![t] = IdleTask]
  /\ hist' = [hist EXCEPT !.addsDone = @ + 1]
  /\ UNCHANGED <<install, clients, mutexW, mutexR, videoSending, audioSending,
                 screenFPS, vloop, aloop, crashed, hasAudio, extDone,
                 nextClient, calls, units, vlog, alog>>

\* RemoveClient of the task's connection, entry: m.mutex.Lock()
RemoveClient_Lock(t) ==
  /\ ~crashed
  /\ task[t].pc = "idle"
  /\ calls < MaxCalls
  /\ CanLock
  /\ mutexW' = t
  /\ task' = [task EXCEPT ![t] = [IdleTask EXCEPT !.pc = "rm_delete",
                                                  !.ws = t]]
  /\ calls' = calls + 1
  /\ UNCHANGED <<install, clients, mutexR, videoSending, audioSending, screenFPS,
                 vloop, aloop, crashed, hasAudio, extDone, nextClient,
                 units, vlog, alog, hist>>

\* a delete that drops every entry when the key is absent
DeleteOrClear(m, ws) == IF m[ws] = NoClient
                        THEN [h \in Handles |-> NoClient]
                        ELSE [m EXCEPT ![ws] = NoClient]

\* the built-in delete(m, ws): the map without the key ws; a no-op when
\* the key is absent
Delete(m, ws) == [m EXCEPT ![ws] = NoClient]

\* delete(m.clients, ws); the task keeps the value the key had, if any
RemoveClient_delete(t) ==
  /\ ~crashed
  /\ task[t].pc = "rm_delete"
  /\ clients' = Delete(clients, task[t].ws)
  /\ task' = [task EXCEPT ![t].pc = "rm_unlock",
                          ![t].client = clients[task[t].ws]]
  /\ UNCHANGED <<install, mutexW, mutexR, videoSending, audioSending, screenFPS,
                 vloop, aloop, crashed, hasAudio, extDone, nextClient,
                 calls, units, vlog, alog, hist>>

\* m.mutex.Unlock()
RemoveClient_Unlock(t) ==
  /\ ~crashed
  /\ task[t].pc = "rm_unlock"
  /\ mutexW' = Unlock(mutexW)
  /\ task' = [task EXCEPT ![t].pc = "rm_log"]
  /\ hist' = [hist EXCEPT !.present = @ \ {task[t].ws}]
  /\ UNCHANGED <<install, clients, mutexR, videoSending, audioSending, screenFPS,
                 vloop, aloop, crashed, hasAudio, extDone, nextClient,
                 calls, units, vlog, alog>>

\* log.Debugf(..., len(m.clients)): unlocked read of the map size; return
RemoveClient_log(t) ==
  /\ ~crashed
  /\ task[t].pc = "rm_log"
  /\ task' = [task EXCEPT ![t] = IdleTask]
  /\ hist' = [hist EXCEPT !.removed = @ \cup ({task[t].client} \ {NoClient})]
  /\ UNCHANGED <<install, clients, mutexW, mutexR, videoSending, audioSending,
                 screenFPS, vloop, aloop, crashed, hasAudio, extDone,
                 nextClient, calls, units, vlog, alog>>

\* a swap that does not compare
AlwaysSwap(cur, old, new) == [ok |-> TRUE, val |-> new]

\* a comparison that reports success without storing the new value
CompareNoStore(cur, old, new) == [ok |-> cur = old, val |-> cur]

\* atomic.CompareAndSwapInt32(addr, old, new) on the value cur of *addr:
\* whether it swapped, and the value it leaves in *addr
CompareAndSwapInt32(cur, old, new) ==
  [ok |-> cur = old, val |-> IF cur = old THEN new ELSE cur]

\* StartVideoStream: if atomic.CompareAndSwapInt32(&m.videoSending, 0, 1);
\* a failed swap returns at once
StartVideoStream_cas(t) ==
  /\ ~crashed
  /\ task[t].pc = "idle"
  /\ calls < MaxCalls
  /\ calls' = calls + 1
  /\ LET r == CompareAndSwapInt32(videoSending, 0, 1) IN
       /\ videoSending' = r.val
       /\ IF r.ok
          THEN /\ task' = [task EXCEPT ![t] =
                             [IdleTask EXCEPT !.pc = "sv_go",
                                              !.mark = hist.addsDone]]
               /\ hist' = [hist EXCEPT !.late = {},
                                       !.cold = (Registered = {})]
          ELSE /\ task' = task
               /\ hist' = [hist EXCEPT
                             !.late = {},
                             !.refused = @ \cup {"video"},
                             !.vEnsured = Max(@, hist.addsDone)]
  /\ UNCHANGED <<install, clients, mutexW, mutexR, audioSending, screenFPS, vloop,
                 aloop, crashed, hasAudio, extDone, nextClient, units, vlog, alog>>

\* go m.sendVideoStream(); return
StartVideoStream_go(t) ==
  /\ ~crashed
  /\ task[t].pc = "sv_go"
  /\ \E i \in LoopIds : vloop[i].pc = "none"
  /\ vloop' = [vloop EXCEPT ![FreeSlot(vloop)] =
                 [NoVideoLoop EXCEPT !.pc = "init"]]
  /\ hist' = [hist EXCEPT !.vEnsured = Max(@, task[t].mark)]
  /\ task' = [task EXCEPT ![t] = IdleTask]
  /\ UNCHANGED <<install, clients, mutexW, mutexR, videoSending, audioSending,
                 screenFPS, aloop, crashed, hasAudio, extDone, nextClient,
                 calls, units, vlog, alog>>

\* StartAudioStream: if atomic.CompareAndSwapInt32(&m.audioSending, 0, 1)
StartAudioStream_cas(t) ==
  /\ ~crashed
  /\ task[t].pc = "idle"
  /\ calls < MaxCalls
  /\ calls' = calls + 1
  /\ LET r == CompareAndSwapInt32(audioSending, 0, 1) IN
       /\ audioSending' = r.val
       /\ IF r.ok
          THEN /\ task' = [task EXCEPT ![t] =
                             [IdleTask EXCEPT !.pc = "sa_go"]]
               /\ hist' = hist
          ELSE /\ task' = task
               /\ hist' = [hist EXCEPT !.refused = @ \cup {"audio"}]
  /\ UNCHANGED <<install, clients, mutexW, mutexR, videoSending, screenFPS, vloop,
                 aloop, crashed, hasAudio, extDone, nextClient, units, vlog, alog>>

\* go m.sendAudioStream(); return
StartAudioStream_go(t) ==
  /\ ~crashed
  /\ task[t].pc = "sa_go"
  /\ \E i \in LoopIds : aloop[i].pc = "none"
  /\ aloop' = [aloop EXCEPT ![FreeSlot(aloop)] =
                 [NoAudioLoop EXCEPT !.pc = "init"]]
  /\ task' = [task EXCEPT ![t] = IdleTask]
  /\ UNCHANGED <<install, clients, mutexW, mutexR, videoSending, audioSending,
                 screenFPS, vloop, crashed, hasAudio, extDone, nextClient,
                 calls, units, vlog, alog, hist>>

\* the places where a video loop reads screen.FPS next (lines 67-68, 96-97)
ReadsFPS(l) == l.pc \in {"init", "newticker", "rate1", "rate2", "rate3"}

\* the places where the value of screen.FPS matters to a tick: where the
\* loop reads it next, and where the tick may end without reading it (the
\* continue of line 84)
PollPoint(l) == ReadsFPS(l) \/ l.pc = "read"

\* the configuration writes a new value to screen.FPS.  A write commutes
\* with every step but a loop's reads of screen.FPS, so it is taken when a
\* loop is about to read, or about to end a tick without reading: a write
\* at any earlier moment leads to the same reads.
SetFPS(r) ==
  /\ ~crashed
  /\ \E i \in LoopIds : PollPoint(vloop[i])
  /\ calls < MaxCalls
  /\ r # screenFPS
  /\ screenFPS' = r
  /\ calls' = calls + 1
  /\ UNCHANGED <<install, clients, mutexW, mutexR, videoSending, audioSending, task,
                 vloop, aloop, crashed, hasAudio, extDone, nextClient,
                 units, vlog, alog, hist>>

\* ------------------------------------------------------ sendVideoStream
\* common.CheckScreen(): a frame rate of 0 is replaced by the default
CheckScreen(fps) == IF fps = 0 THEN DefaultFPS ELSE fps

\* screen := common.GetScreen(); common.CheckScreen()
sendVideoStream_CheckScreen(i) ==
  /\ ~crashed
  /\ vloop[i].pc = "init"
  /\ screenFPS' = CheckScreen(screenFPS)
  /\ vloop' = [vloop EXCEPT ![i].pc = "newticker"]
  /\ UNCHANGED <<install, clients, mutexW, mutexR, videoSending, audioSending, task,
                 aloop, crashed, hasAudio, extDone, nextClient, calls,
                 units, vlog, alog, hist>>

\* fps := screen.FPS; duration := time.Second / time.Duration(fps);
\* ticker := time.NewTicker(duration).  Integer division by zero panics.
sendVideoStream_NewTicker(i) ==
  /\ ~crashed
  /\ vloop[i].pc = "newticker"
  /\ vloop' = IF screenFPS = 0
              THEN [vloop EXCEPT ![i].pc = "panic"]
              ELSE [vloop EXCEPT ![i].pc = "wait",
                                 ![i].fps = screenFPS,
                                 ![i].duration = TickDuration(screenFPS),
                                 ![i].ticker = TickDuration(screenFPS)]
  /\ UNCHANGED <<install, clients, mutexW, mutexR, videoSending, audioSending,
                 screenFPS, task, aloop, crashed, hasAudio, extDone,
                 nextClient, calls, units, vlog, alog, hist>>

\* for range ticker.C: a tick is received and the body calls
\* GetClientCount, which takes m.mutex.RLock()
sendVideoStream_tick(i) ==
  /\ ~crashed
  /\ vloop[i].pc = "wait"
  /\ CanRLock
  /\ mutexR' = mutexR \cup {<<"v", i>>}
  /\ vloop' = [vloop EXCEPT ![i].pc = "cnt_read"]
  /\ UNCHANGED <<install, clients, mutexW, videoSending, audioSending, screenFPS,
                 task, aloop, crashed, hasAudio, extDone, nextClient,
                 calls, units, vlog, alog, hist>>

\* a test that never finds the registry empty
NeverZero(n) == FALSE

\* if m.GetClientCount() == 0
ZeroClients(n) == n = 0

\* GetClientCount: return len(m.clients) with the deferred RUnlock();
\* a count of 0 takes the return of line 79, any other the read of line 82
sendVideoStream_GetClientCount(i) ==
  /\ ~crashed
  /\ vloop[i].pc = "cnt_read"
  /\ mutexR' = RUnlock(mutexR, <<"v", i>>)
  /\ vloop' = [vloop EXCEPT
                 ![i].n = MapLen(clients),
                 ![i].pc = IF ZeroClients(MapLen(clients))
                           THEN "stop" ELSE "read"]
  /\ UNCHANGED <<install, clients, mutexW, videoSending, audioSending, screenFPS,
                 task, aloop, crashed, hasAudio, extDone, nextClient,
                 calls, units, vlog, alog, hist>>

\* a test that looks at the status only
OnlyNegative(result, size) == result < 0

\* if result < 0 || len(data) == 0
IsMiss(result, size) == result < 0 \/ size = 0

\* data, result := vision.ReadH264(...) returns the status result and
\* size bytes of data: a miss continues with the next tick; a unit becomes
\* the sample of this tick (Data: data, Duration: duration) and the range
\* over m.clients begins
sendVideoStream_ReadH264(i, result, size) ==
  /\ ~crashed
  /\ vloop[i].pc = "read"
  /\ IF IsMiss(result, size)
     THEN /\ vloop' = [vloop EXCEPT ![i].pc = "wait"]
          /\ units' = units
     ELSE /\ units < MaxUnits
          /\ units' = units + 1
          /\ vloop' = [vloop EXCEPT ![i].pc = "fanout",
                                    ![i].data = units + 1,
                                    ![i].sdur = vloop[i].duration,
                                    ![i].start = Len(vlog),
                                    ![i].snap = Live,
                                    ![i].visited = {},
                                    ![i].failed = {},
                                    ![i].cur = NoClient]
  /\ UNCHANGED <<install, clients, mutexW, mutexR, videoSending, audioSending,
                 screenFPS, task, aloop, crashed, hasAudio, extDone,
                 nextClient, calls, vlog, alog, hist>>

\* a range that serves only the sessions that joined before the last Start
SkipLateJoiners(l) == (l.snap \cap Live) \ hist.late

\* a range that may end before it has produced every entry
MayEndEarly(l) == {}

\* the clients the range statement has to produce before it may end: the
\* entries that have been in the map since the range began
MustVisit(l) == l.snap \cap Live

\* a loop that returns when a write fails
StopOnFailure(ok) == IF ok THEN "fanout" ELSE "stop"

\* the next statement after client.track.writeVideo(sample) returned:
\* the result is not looked at, the range goes on
AfterWrite(ok) == "fanout"

\* for _, client := range m.clients (no lock held): the range produces an
\* entry of the map it has not produced yet, and writeVideo is called
sendVideoStream_range(i, h) ==
  /\ ~crashed
  /\ vloop[i].pc = "fanout"
  /\ clients[h] # NoClient
  /\ clients[h] \notin vloop[i].visited
  /\ vloop' = [vloop EXCEPT ![i].pc = "writing",
                            ![i].cur = clients[h],
                            ![i].visited = @ \cup {clients[h]}]
  /\ vlog' = Append(vlog, [client |-> clients[h], unit |-> vloop[i].data,
                           dur |-> vloop[i].sdur, loop |-> i])
  /\ UNCHANGED <<install, clients, mutexW, mutexR, videoSending, audioSending,
                 screenFPS, task, aloop, crashed, hasAudio, extDone,
                 nextClient, calls, units, alog, hist>>

\* client.track.writeVideo(sample) returns, having succeeded or failed
sendVideoStream_writeVideo(i, ok) ==
  /\ ~crashed
  /\ vloop[i].pc = "writing"
  /\ vloop' = [vloop EXCEPT
                 ![i].pc = AfterWrite(ok),
                 ![i].cur = NoClient,
                 ![i].failed = IF ok THEN @ ELSE @ \cup {vloop[i].cur}]
  /\ UNCHANGED <<install, clients, mutexW, mutexR, videoSending, audioSending,
                 screenFPS, task, aloop, crashed, hasAudio, extDone,
                 nextClient, calls, units, vlog, alog, hist>>

\* the range over m.clients ends
sendVideoStream_rangeDone(i) ==
  /\ ~crashed
  /\ vloop[i].pc = "fanout"
  /\ MustVisit(vloop[i]) \subseteq vloop[i].visited
  /\ vloop' = [vloop EXCEPT ![i].pc = "rate1"]
  /\ UNCHANGED <<install, clients, mutexW, mutexR, videoSending, audioSending,
                 screenFPS, task, aloop, crashed, hasAudio, extDone,
                 nextClient, calls, units, vlog, alog, hist>>

\* the range runs while a task is inside m.clients[ws] = client or
\* delete(m.clients, ws): the Go runtime may stop the process with
\* "fatal error: concurrent map iteration and map write"
sendVideoStream_fatal(i) ==
  /\ ~crashed
  /\ vloop[i].pc = "fanout"
  /\ \E t \in Tasks : task[t].pc \in {"add_insert", "rm_delete"}
  /\ crashed' = TRUE
  /\ UNCHANGED <<install, clients, mutexW, mutexR, videoSending, audioSending,
                 screenFPS, task, vloop, aloop, hasAudio, extDone,
                 nextClient, calls, units, vlog, alog, hist>>

\* the loop-local state a tick leaves behind when the next wait begins
NextWait(l) == [l EXCEPT !.pc = "wait", !.n = 0, !.data = 0, !.sdur = 0,
                         !.start = 0, !.snap = {}, !.visited = {},
                         !.failed = {}, !.cur = NoClient]

\* if screen.FPS != fps (first operand of the && of line 96)
sendVideoStream_rate1(i) ==
  /\ ~crashed
  /\ vloop[i].pc = "rate1"
  /\ vloop' = [vloop EXCEPT ![i] = IF screenFPS # vloop[i].fps
                                   THEN [@ EXCEPT !.pc = "rate2"]
                                   ELSE NextWait(@)]
  /\ UNCHANGED <<install, clients, mutexW, mutexR, videoSending, audioSending,
                 screenFPS, task, aloop, crashed, hasAudio, extDone,
                 nextClient, calls, units, vlog, alog, hist>>

\* && screen.FPS != 0 (second operand, a second read of screen.FPS)
sendVideoStream_rate2(i) ==
  /\ ~crashed
  /\ vloop[i].pc = "rate2"
  /\ vloop' = [vloop EXCEPT ![i] = IF screenFPS # 0
                                   THEN [@ EXCEPT !.pc = "rate3"]
                                   ELSE NextWait(@)]
  /\ UNCHANGED <<install, clients, mutexW, mutexR, videoSending, audioSending,
                 screenFPS, task, aloop, crashed, hasAudio, extDone,
                 nextClient, calls, units, vlog, alog, hist>>

\* a rate change that leaves out ticker.Reset(duration)
KeepTicker(l, r) == [NextWait(l) EXCEPT !.fps = r,
                                        !.duration = TickDuration(r),
                                        !.ticker = l.ticker]

\* the loop's rate, sample duration and ticker interval after
\* fps = screen.FPS; duration = time.Second / time.Duration(fps);
\* ticker.Reset(duration), for the value r read from screen.FPS (r # 0)
ApplyRate(l, r) == [NextWait(l) EXCEPT !.fps = r,
                                       !.duration = TickDuration(r),
                                       !.ticker = TickDuration(r)]

\* lines 97-99, a third read of screen.FPS; a 0 read here divides by zero
sendVideoStream_rate3(i) ==
  /\ ~crashed
  /\ vloop[i].pc = "rate3"
  /\ vloop' = [vloop EXCEPT ![i] = IF screenFPS = 0
                                   THEN [@ EXCEPT !.pc = "panic"]
                                   ELSE ApplyRate(@, screenFPS)]
  /\ UNCHANGED <<install, clients, mutexW, mutexR, videoSending, audioSending,
                 screenFPS, task, aloop, crashed, hasAudio, extDone,
                 nextClient, calls, units, vlog, alog, hist>>

\* a panic unwinds the goroutine: the deferred ticker.Stop() and
\* atomic.StoreInt32(&m.videoSending, 0) run, then the process exits
sendVideoStream_panic(i) ==
  /\ ~crashed
  /\ vloop[i].pc = "panic"
  /\ videoSending' = 0
  /\ vloop' = [vloop EXCEPT ![i] = NoVideoLoop]
  /\ crashed' = TRUE
  /\ UNCHANGED <<install, clients, mutexW, mutexR, audioSending, screenFPS, task,
                 aloop, hasAudio, extDone, nextClient, calls, units, vlog, alog, hist>>

\* return (line 79): deferred ticker.Stop()
sendVideoStream_Stop(i) ==
  /\ ~crashed
  /\ vloop[i].pc = "stop"
  /\ vloop' = [vloop EXCEPT ![i].pc = "clear", ![i].ticker = 0]
  /\ UNCHANGED <<install, clients, mutexW, mutexR, videoSending, audioSending,
                 screenFPS, task, aloop, crashed, hasAudio, extDone,
                 nextClient, calls, units, vlog, alog, hist>>

\* a store that is left out
StoreDropped(cur, new) == cur

\* atomic.StoreInt32(addr, new) on the value cur of *addr: the value it
\* leaves in *addr
StoreInt32(cur, new) == new

\* deferred atomic.StoreInt32(&m.videoSending, 0); the goroutine ends
sendVideoStream_Store(i) ==
  /\ ~crashed
  /\ vloop[i].pc = "clear"
  /\ videoSending' = StoreInt32(videoSending, 0)
  /\ vloop' = [vloop EXCEPT ![i] = NoVideoLoop]
  /\ hist' = [hist EXCEPT !.vExited = TRUE, !.cold = FALSE]
  /\ UNCHANGED <<install, clients, mutexW, mutexR, audioSending, screenFPS, task,
                 aloop, crashed, hasAudio, extDone, nextClient, calls,
                 units, vlog, alog>>

\* ------------------------------------------------------ sendAudioStream
\* frameDuration := 20 * time.Millisecond;
\* ticker := time.NewTicker(frameDuration)
sendAudioStream_NewTicker(i) ==
  /\ ~crashed
  /\ aloop[i].pc = "init"
  /\ aloop' = [aloop EXCEPT ![i].pc = "wait", ![i].ticker = FrameDuration]
  /\ UNCHANGED <<install, clients, mutexW, mutexR, videoSending, audioSending,
                 screenFPS, task, vloop, crashed, hasAudio, extDone,
                 nextClient, calls, units, vlog, alog, hist>>

\* for range ticker.C: a tick is received and the body calls
\* GetClientCount, which takes m.mutex.RLock()
sendAudioStream_tick(i) ==
  /\ ~crashed
  /\ aloop[i].pc = "wait"
  /\ CanRLock
  /\ mutexR' = mutexR \cup {<<"a", i>>}
  /\ aloop' = [aloop EXCEPT ![i].pc = "cnt_read"]
  /\ UNCHANGED <<install, clients, mutexW, videoSending, audioSending, screenFPS,
                 task, vloop, crashed, hasAudio, extDone, nextClient,
                 calls, units, vlog, alog, hist>>

\* GetClientCount: return len(m.clients) with the deferred RUnlock();
\* a count of 0 returns (line 119); otherwise the body of the loop is the
\* commented-out placeholder of lines 122-137 and the next tick is awaited
sendAudioStream_GetClientCount(i) ==
  /\ ~crashed
  /\ aloop[i].pc = "cnt_read"
  /\ mutexR' = RUnlock(mutexR, <<"a", i>>)
  /\ aloop' = [aloop EXCEPT
                 ![i].pc = IF ZeroClients(MapLen(clients))
                           THEN "stop" ELSE "wait"]
  /\ hist' = [hist EXCEPT !.aDue = IF ZeroClients(MapLen(clients))
                                   THEN @ ELSE @ \cup (Live \cap hasAudio)]
  /\ UNCHANGED <<install, clients, mutexW, videoSending, audioSending, screenFPS,
                 task, vloop, crashed, hasAudio, extDone, nextClient,
                 calls, units, vlog, alog>>

\* return (line 119): deferred ticker.Stop()
sendAudioStream_Stop(i) ==
  /\ ~crashed
  /\ aloop[i].pc = "stop"
  /\ aloop' = [aloop EXCEPT ![i].pc = "clear", ![i].ticker = 0]
  /\ UNCHANGED <<install, clients, mutexW, mutexR, videoSending, audioSending,
                 screenFPS, task, vloop, crashed, hasAudio, extDone,
                 nextClient, calls, units, vlog, alog, hist>>

\* deferred atomic.StoreInt32(&m.audioSending, 0); the goroutine ends
sendAudioStream_Store(i) ==
  /\ ~crashed
  /\ aloop[i].pc = "clear"
  /\ audioSending' = StoreInt32(audioSending, 0)
  /\ aloop' = [aloop EXCEPT ![i] = NoAudioLoop]
  /\ UNCHANGED <<install, clients, mutexW, mutexR, videoSending, screenFPS, task,
                 vloop, crashed, hasAudio, extDone, nextClient, calls,
                 units, vlog, alog, hist>>

\* ------------------------------------------------------- specification
TaskStep(t) ==
  \/ AddClient_call(t)
  \/ AddClient_updateExtension(t)
  \/ AddClient_Lock(t)
  \/ AddClient_insert(t)
  \/ AddClient_Unlock(t)
  \/ AddClient_log(t)
  \/ RemoveClient_Lock(t)
  \/ RemoveClient_delete(t)
  \/ RemoveClient_Unlock(t)
  \/ RemoveClient_log(t)
  \/ StartVideoStream_cas(t)
  \/ StartVideoStream_go(t)
  \/ StartAudioStream_cas(t)
  \/ StartAudioStream_go(t)

\* the steps of a video loop other than the return of writeVideo
VideoStep(i) ==
  \/ sendVideoStream_CheckScreen(i)
  \/ sendVideoStream_NewTicker(i)
  \/ sendVideoStream_tick(i)
  \/ sendVideoStream_GetClientCount(i)
  \/ \E result \in Results, size \in Sizes :
       sendVideoStream_ReadH264(i, result, size)
  \/ \E h \in Handles : sendVideoStream_range(i, h)
  \/ sendVideoStream_rangeDone(i)
  \/ sendVideoStream_rate1(i)
  \/ sendVideoStream_rate2(i)
  \/ sendVideoStream_rate3(i)
  \/ sendVideoStream_panic(i)
  \/ sendVideoStream_Stop(i)
  \/ sendVideoStream_Store(i)

VideoWriteReturn(i) == \E ok \in BOOLEAN : sendVideoStream_writeVideo(i, ok)

AudioStep(i) ==
  \/ sendAudioStream_NewTicker(i)
  \/ sendAudioStream_tick(i)
  \/ sendAudioStream_GetClientCount(i)
  \/ sendAudioStream_Stop(i)
  \/ sendAudioStream_Store(i)

Next ==
  \/ \E t \in Tasks : TaskStep(t)
  \/ \E i \in LoopIds : VideoStep(i)
  \/ \E i \in LoopIds : VideoWriteReturn(i)
  \/ \E i \in LoopIds : sendVideoStream_fatal(i)
  \/ \E i \in LoopIds : AudioStep(i)
  \/ \E r \in Rates : SetFPS(r)

Spec == Init /\ [][Next]_vars

\* a call that has begun goes on: the Go scheduler runs every runnable
\* goroutine and the mutex is granted once it is free
TaskProgress == \E t \in Tasks : task[t].pc # "idle" /\ TaskStep(t)
VideoProgress == \E i \in LoopIds : VideoStep(i)
AudioProgress == \E i \in LoopIds : AudioStep(i)
WriteProgress == \E i \in LoopIds : VideoWriteReturn(i)

\* the loops are scheduled and their tickers keep firing; the writes to
\* the tracks are left to the peer connection and need not return
SlowWriteSpec ==
  /\ Spec
  /\ WF_vars(TaskProgress)
  /\ WF_vars(VideoProgress)
  /\ WF_vars(AudioProgress)

\* as SlowWriteSpec, and every writeVideo call returns
FairSpec ==
  /\ SlowWriteSpec
  /\ WF_vars(WriteProgress)

\* ============================================================ properties

\* C1: at most one loop instance of each media kind is active at any time,
\* whatever the interleaving of Start calls, terminations and restarts, and
\* a Start call that finds the kind's flag set spawns nothing: it returns
\* with no goroutine created and none pending.
AtMostOneLoop ==
  /\ [](Cardinality(ActiveV) <= 1 /\ Cardinality(ActiveA) <= 1)
  /\ [][\A t \in Tasks :
          /\ (StartVideoStream_cas(t) /\ videoSending = 1)
               => (vloop' = vloop /\ task'[t].pc = "idle")
          /\ (StartAudioStream_cas(t) /\ audioSending = 1)
               => (aloop' = aloop /\ task'[t].pc = "idle")]_vars

\* a video loop is running after a StartVideoStream call was refused
AtMostOneLoopWitness ==
  /\ Cardinality(ActiveV) = 1
  /\ "video" \in hist.refused

ZeroClientsTermination ==
  /\ [][\A i \in LoopIds :
          /\ (sendVideoStream_GetClientCount(i) /\ MapLen(clients) = 0)
               => vloop'[i].pc = "stop"
          /\ (sendAudioStream_GetClientCount(i) /\ MapLen(clients) = 0)
               => aloop'[i].pc = "stop"]_vars
  /\ [](ActiveV # {} => <>(videoSending = 0 \/ Registered # {} \/ crashed))
  /\ [](ActiveA # {} => <>(audioSending = 0 \/ Registered # {} \/ crashed))

\* a video loop that has delivered a unit has ended on an empty registry
ZeroClientsTerminationWitness ==
  /\ hist.vExited
  /\ units > 0
  /\ videoSending = 0
  /\ ActiveV = {}
  /\ Registered = {}

\* the positions in vlog of the writes loop i has made in its current tick
TickWrites(i) == {k \in DOMAIN vlog : k > vloop[i].start /\ vlog[k].loop = i}

\* C2: a StartVideoStream call that was made after the last AddClient
\* returned, and has itself returned, leaves a video loop running (or about
\* to be spawned by a go statement) for as long as the registry is
\* non-empty.
StartEnsuresLoop ==
  (/\ ~crashed
   /\ Registered # {}
   /\ hist.addsDone > 0
   /\ hist.vEnsured = hist.addsDone
   /\ \A t \in Tasks : task[t].pc \notin {"add_ext", "add_lock",
                                          "add_insert", "add_unlock",
                                          "add_log"})
  => (ActiveV # {} \/ \E t \in Tasks : task[t].pc = "sv_go")

\* C5: fan-out equivalence.  When the range of a video tick has ended,
\* every session registered throughout it has received exactly one write
\* in this tick, and all writes of the tick carry the tick's unit and the
\* duration of its sample.
FanOutEquivalence ==
  \A i \in LoopIds :
    vloop[i].pc = "rate1" =>
      /\ \A c \in vloop[i].snap \cap Live :
           Cardinality({k \in TickWrites(i) : vlog[k].client = c}) = 1
      /\ \A k \in TickWrites(i) :
           /\ vlog[k].unit = vloop[i].data
           /\ vlog[k].dur = vloop[i].sdur
      /\ \A j, k \in TickWrites(i) :
           vlog[j].unit = vlog[k].unit /\ vlog[j].dur = vlog[k].dur

\* a tick has written its unit to two registered sessions
FanOutEquivalenceWitness ==
  \E i \in LoopIds :
    /\ vloop[i].pc = "rate1"
    /\ Cardinality(vloop[i].snap \cap Live) = 2
    /\ Cardinality(TickWrites(i)) = 2

\* C6: late join.  A session inserted while a video loop was running, with
\* no StartVideoStream call made since, that is registered when the range
\* of a tick with a unit begins and stays registered, has been written to
\* when that range ends.
LateJoin ==
  \A i \in LoopIds :
    vloop[i].pc = "rate1" =>
      \A c \in hist.late \cap vloop[i].snap \cap Live :
        \E k \in TickWrites(i) : vlog[k].client = c /\ vlog[k].unit > 0

\* a late joiner has been written to without a Start call after its insert
LateJoinWitness ==
  \E i \in LoopIds :
    /\ vloop[i].pc = "rate1"
    /\ \E c \in hist.late \cap Live :
         \E k \in TickWrites(i) : vlog[k].client = c

\* C7: every session with an audio track that was registered at an audio
\* tick has received a write of one 20 ms frame.
AudioDelivered ==
  \A c \in hist.aDue :
    \E k \in DOMAIN alog : alog[k].client = c /\ alog[k].dur = 20000000

\* C8: isolation under failure.  The return of a failed write leads to the
\* next entry of the range like that of a successful one and leaves the
\* flag set; a tick in which a write failed has not stopped the loop, and
\* when its range ends every session registered throughout was written to.
IsolationUnderFailure ==
  /\ [][\A i \in LoopIds :
          sendVideoStream_writeVideo(i, FALSE)
            => /\ vloop'[i].pc = "fanout"
               /\ vloop'[i].visited = vloop[i].visited
               /\ vloop'[i].snap = vloop[i].snap
               /\ videoSending = 1 /\ videoSending' = 1]_vars
  /\ [](\A i \in LoopIds :
          vloop[i].failed # {} =>
            /\ videoSending = 1
            /\ vloop[i].pc \notin {"stop", "clear", "none"}
            /\ vloop[i].pc = "rate1" =>
                 \A c \in vloop[i].snap \cap Live :
                   \E k \in TickWrites(i) : vlog[k].client = c)

\* in one tick a write failed and a later write went to another session
IsolationUnderFailureWitness ==
  \E i \in LoopIds :
    /\ vloop[i].pc = "rate1"
    /\ \E j, k \in TickWrites(i) :
         /\ j < k
         /\ vlog[j].client \in vloop[i].failed
         /\ vlog[k].client \notin vloop[i].failed

\* C9: no head-of-line blocking.  Without assuming that a write returns, a
\* tick's range reaches every session registered throughout it, and the
\* loop reaches its next wait (or its end).
NoHeadOfLineBlocking ==
  \A i \in LoopIds :
    /\ [](vloop[i].pc \in {"fanout", "writing"}
            => <>(crashed \/ MustVisit(vloop[i]) \subseteq vloop[i].visited))
    /\ [](vloop[i].pc \in {"fanout", "writing"}
            => <>(crashed \/ vloop[i].pc \in {"wait", "none"}))

\* C10: rate adaptation without restart.  A rate check that finds a new
\* non-zero rate goes through to the update, which sets the loop's rate and
\* ticker interval to 1 s / rate; during the check the video flag stays 1
\* and the loop is the only video loop.
RateAdaptation ==
  /\ [][\A i \in LoopIds :
          /\ (sendVideoStream_rate1(i) /\ screenFPS # vloop[i].fps)
               => vloop'[i].pc = "rate2"
          /\ (sendVideoStream_rate2(i) /\ screenFPS # 0)
               => vloop'[i].pc = "rate3"
          /\ (sendVideoStream_rate3(i) /\ screenFPS # 0)
               => /\ vloop'[i].pc = "wait"
                  /\ vloop'[i].fps = screenFPS
                  /\ vloop'[i].ticker = 1000000000 \div screenFPS
                  /\ vloop'[i].duration = vloop'[i].ticker
                  /\ videoSending' = 1]_vars
  /\ [](\A i \in LoopIds :
          vloop[i].pc \in {"rate1", "rate2", "rate3"}
            => videoSending = 1 /\ ActiveV = {i})

\* the first video loop ticks at 60 fps after it was started at 30 fps
RateAdaptationWitness ==
  \E i \in LoopIds :
    /\ vloop[i].pc = "wait"
    /\ vloop[i].fps = 60
    /\ vloop[i].ticker = 16666666
    /\ units > 0
    /\ videoSending = 1
    /\ ~hist.vExited

\* C11: the frame rate is polled on every tick that does not end the loop,
\* a tick skipped as a source miss included: the step that ends a tick and
\* leads to the next wait, taken while screen.FPS holds a non-zero rate
\* other than the loop's, leaves the loop and its ticker at that rate.
PolledEachTick ==
  [][\A i \in LoopIds :
       (/\ vloop[i].pc \in {"read", "rate1", "rate2", "rate3"}
        /\ vloop'[i].pc = "wait"
        /\ screenFPS # 0
        /\ screenFPS # vloop[i].fps)
       => (/\ vloop'[i].fps = screenFPS
           /\ vloop'[i].ticker = Second \div screenFPS)]_vars

\* C12: a reading of screen.FPS that is 0, or equal to the rate in force,
\* leaves the loop's rate, its tick interval and the duration declared on
\* later samples unchanged: whichever of the reads of lines 96-97 returns
\* such a value, the loop goes on with the interval it had, and every
\* sample carries the loop's duration.
ZeroOrSameKeepsInterval ==
  [][\A i \in LoopIds :
       /\ (/\ vloop[i].pc \in {"rate1", "rate2", "rate3"}
           /\ vloop'[i] # vloop[i]
           /\ (screenFPS = 0 \/ screenFPS = vloop[i].fps))
          => (/\ vloop'[i].pc \in {"wait", "rate2", "rate3"}
              /\ vloop'[i].fps = vloop[i].fps
              /\ vloop'[i].duration = vloop[i].duration
              /\ vloop'[i].ticker = vloop[i].ticker)
       /\ (\E result \in Results, size \in Sizes :
             sendVideoStream_ReadH264(i, result, size))
          => vloop'[i].sdur \in {0, vloop[i].duration}]_vars

\* C13: cold start.  While a video loop started on an empty registry that
\* has stayed empty is starting or running, no unit is pulled and no write
\* is made; the count it reads at its first tick sends it to the return; its
\* deferred store leaves the video flag at 0 with no video loop left; and
\* (with the loops scheduled and ticks firing) it does end.
ColdStart ==
  /\ [][(hist.cold /\ hist'.cold) => (units' = units /\ vlog' = vlog)]_vars
  /\ [][\A i \in LoopIds :
          /\ (hist.cold /\ sendVideoStream_GetClientCount(i))
               => vloop'[i].pc = "stop"
          /\ (hist.cold /\ sendVideoStream_Store(i))
               => (videoSending' = 0 /\ vloop'[i].pc = "none")]_vars
  /\ [](hist.cold =>
          \A i \in LoopIds :
            vloop[i].pc \in {"none", "init", "newticker", "panic", "wait",
                             "cnt_read", "stop", "clear"})
  /\ [](hist.cold => <>(~hist.cold \/ crashed))

\* a video loop has been started and has ended with the flag at 0 while
\* no session was ever added, no unit pulled and no write made
ColdStartWitness ==
  /\ hist.vExited
  /\ nextClient = 0
  /\ units = 0
  /\ vlog = <<>>
  /\ videoSending = 0
  /\ ActiveV = {}

\* C14: mid-stream disconnect.  No write of a tick goes to a session whose
\* RemoveClient call has returned; every write of a tick goes to a session
\* that was registered when the tick's fan-out started; and the range of a
\* tick ends only when every session registered since then was written to.
MidStreamDisconnect ==
  [][\A i \in LoopIds :
       /\ \A h \in Handles :
            sendVideoStream_range(i, h)
              => /\ clients[h] \notin hist.removed
                 /\ clients[h] \in vloop[i].snap
       /\ sendVideoStream_rangeDone(i)
            => (vloop[i].snap \cap Live) \subseteq vloop[i].visited]_vars

\* the steps of a RemoveClient call made by task t
RemoveClientStep(t) ==
  \/ RemoveClient_Lock(t)
  \/ RemoveClient_delete(t)
  \/ RemoveClient_Unlock(t)
  \/ RemoveClient_log(t)

\* C15: RemoveClient is idempotent.  The delete of a handle that is not
\* registered leaves the registry and the session count as they were and
\* goes on to the return like any other; every delete leaves the handle
\* absent and the other entries untouched (so a second removal changes
\* nothing); and no step of RemoveClient changes a running flag.
RemoveIdempotent ==
  [][\A t \in Tasks :
       /\ (RemoveClient_delete(t) /\ clients[task[t].ws] = NoClient)
            => /\ clients' = clients
               /\ MapLen(clients') = MapLen(clients)
               /\ task'[t].pc = "rm_unlock"
       /\ RemoveClient_delete(t)
            => /\ clients'[task[t].ws] = NoClient
               /\ \A h \in Handles \ {task[t].ws} : clients'[h] = clients[h]
       /\ RemoveClient_log(t) => task'[t].pc = "idle"
       /\ RemoveClientStep(t)
            => /\ videoSending' = videoSending
               /\ audioSending' = audioSending]_vars

\* ws1 was removed before and a further RemoveClient(ws1) has found the
\* handle absent and is about to return, with another session registered
RemoveIdempotentWitness ==
  /\ task["ws1"].pc = "rm_log"
  /\ task["ws1"].client = NoClient
  /\ hist.removed \cap hasAudio # {}
  /\ Registered = {"ws2"}

\* C16: RemoveClient never waits for an in-flight broadcast.  A video loop
\* between its count and the end of its tick holds no lock; while a loop is
\* in its fan-out (in a write or between two writes) a RemoveClient call
\* can take the lock as soon as no other caller holds it and no audio loop
\* is reading the count, and a call that holds the lock can take each of
\* its remaining steps, with no step of the video loop in between.
RemoveNeverWaits ==
  \A i \in LoopIds :
    (~crashed /\ vloop[i].pc \in {"fanout", "writing"}) =>
      /\ <<"v", i>> \notin mutexR
      /\ \A t \in Tasks :
           /\ (/\ task[t].pc = "idle"
               /\ calls < MaxCalls
               /\ mutexW = NoTask
               /\ \A j \in LoopIds : <<"a", j>> \notin mutexR)
              => ENABLED RemoveClient_Lock(t)
           /\ task[t].pc \in {"rm_delete", "rm_unlock", "rm_log"}
              => ENABLED RemoveClientStep(t)

\* a RemoveClient call has deleted a session and released the lock while
\* the write of a tick to that session's track is still in progress
RemoveNeverWaitsWitness ==
  \E i \in LoopIds, t \in Tasks :
    /\ vloop[i].pc = "writing"
    /\ task[t].pc = "rm_log"
    /\ task[t].client # NoClient
    /\ task[t].client = vloop[i].cur

\* C17: a loop stops only on the zero-clients condition.  A loop goroutine
\* ends only from its deferred store, reached after a count of 0; a flag
\* goes from 1 to 0 only in that store; and a source miss, a failed write
\* or a step of the rate check leads on to the next statement of the loop.
StopsOnlyOnZeroClients ==
  [][/\ \A i \in LoopIds :
          /\ (vloop[i].pc # "none" /\ vloop'[i].pc = "none")
               => (sendVideoStream_Store(i) /\ vloop[i].n = 0)
          /\ (aloop[i].pc # "none" /\ aloop'[i].pc = "none")
               => sendAudioStream_Store(i)
          /\ (\E result \in Results, size \in Sizes :
                /\ result < 0 \/ size = 0
                /\ sendVideoStream_ReadH264(i, result, size))
               => (vloop'[i].pc = "wait" /\ videoSending' = 1)
          /\ sendVideoStream_writeVideo(i, FALSE)
               => (vloop'[i].pc = "fanout" /\ videoSending' = 1)
          /\ (vloop[i].pc \in {"rate1", "rate2", "rate3"}
                /\ vloop'[i] # vloop[i])
               => (vloop'[i].pc \in {"wait", "rate2", "rate3"}
                   /\ videoSending' = 1)
     /\ (videoSending = 1 /\ videoSending' = 0)
          => \E i \in LoopIds : sendVideoStream_Store(i) /\ vloop[i].n = 0
     /\ (audioSending = 1 /\ audioSending' = 0)
          => \E i \in LoopIds : sendAudioStream_Store(i)]_vars

\* C18: transient source miss.  A read that returns a negative status or
\* no data ends the tick: the loop goes to its next wait with its ticker
\* running, without a second read and without a write, and the video flag
\* stays 1.
TransientMiss ==
  [][\A i \in LoopIds : \A result \in Results, size \in Sizes :
       (/\ result < 0 \/ size = 0
        /\ sendVideoStream_ReadH264(i, result, size))
       => /\ vloop'[i].pc = "wait"
          /\ vloop'[i].ticker = vloop[i].ticker
          /\ vloop[i].ticker > 0
          /\ units' = units
          /\ vlog' = vlog
          /\ videoSending = 1
          /\ videoSending' = 1]_vars

\* a loop waits for its next tick after a tick that counted a session and
\* did not reach the rate check; nothing has been pulled or written yet
TransientMissWitness ==
  \E i \in LoopIds :
    /\ vloop[i].pc = "wait"
    /\ vloop[i].n > 0
    /\ units = 0
    /\ vlog = <<>>
    /\ videoSending = 1

\* C19: removing a session does not stop the broadcast.  No step of a
\* RemoveClient call changes a running flag or the position of a loop; a
\* loop that counts at least one session at a tick goes on with the tick;
\* and a delete that leaves a session registered does not end the loop
\* that is in its fan-out.
RemoveKeepsBroadcast ==
  [][/\ \A t \in Tasks :
          RemoveClientStep(t)
            => /\ videoSending' = videoSending
               /\ audioSending' = audioSending
               /\ vloop' = vloop
               /\ aloop' = aloop
     /\ \A i \in LoopIds :
          /\ (sendVideoStream_GetClientCount(i) /\ MapLen(clients) > 0)
               => vloop'[i].pc = "read"
          /\ (sendAudioStream_GetClientCount(i) /\ MapLen(clients) > 0)
               => aloop'[i].pc = "wait"
          /\ (/\ vloop[i].pc = "fanout"
              /\ \E t \in Tasks : /\ task[t].pc = "rm_delete"
                                  /\ task[t].ws \in Registered
                                  /\ Registered \ {task[t].ws} # {})
               => ~sendVideoStream_fatal(i)]_vars

\* C20: no reordering.  Every write carries a unit that was pulled from
\* the source, and of two writes to the same session the later one carries
\* the unit pulled later: the units written to a session are a subsequence
\* of the units pulled, in pull order, whichever loop wrote them.
NoReordering ==
  /\ \A k \in DOMAIN vlog : vlog[k].unit \in 1..units
  /\ \A j, k \in DOMAIN vlog :
       (j < k /\ vlog[j].client = vlog[k].client)
         => vlog[j].unit < vlog[k].unit

\* two sessions have each been written the first unit and then the second
NoReorderingWitness ==
  \E c, d \in Clients :
    /\ c # d
    /\ \A e \in {c, d} :
         \E j, k \in DOMAIN vlog :
           /\ j < k
           /\ vlog[j].client = e /\ vlog[j].unit = 1
           /\ vlog[k].client = e /\ vlog[k].unit = 2

\* C21: video and audio are independent.  No Start call or loop step of one
\* kind changes the other kind's flag or loop (its position and ticker),
\* and no write to screen.FPS changes the audio loop; a running audio loop
\* always ticks at 20 ms; and a loop that waits for its tick can take it
\* whenever no caller holds the write lock, whatever the other loop does.
KindsIndependent ==
  /\ [][/\ \A t \in Tasks :
            /\ (StartVideoStream_cas(t) \/ StartVideoStream_go(t))
                 => (audioSending' = audioSending /\ aloop' = aloop)
            /\ (StartAudioStream_cas(t) \/ StartAudioStream_go(t))
                 => (videoSending' = videoSending /\ vloop' = vloop)
        /\ \A i \in LoopIds :
            /\ (VideoStep(i) \/ VideoWriteReturn(i))
                 => (audioSending' = audioSending /\ aloop' = aloop)
            /\ AudioStep(i)
                 => /\ videoSending' = videoSending
                    /\ vloop' = vloop
                    /\ screenFPS' = screenFPS
        /\ \A r \in Rates :
            SetFPS(r) => (audioSending' = audioSending /\ aloop' = aloop)]_vars
  /\ [](\A i \in LoopIds :
          /\ aloop[i].pc \in {"wait", "cnt_read", "stop"}
               => aloop[i].ticker = 20000000
          /\ (~crashed /\ mutexW = NoTask /\ aloop[i].pc = "wait")
               => ENABLED sendAudioStream_tick(i)
          /\ (~crashed /\ mutexW = NoTask /\ vloop[i].pc = "wait")
               => ENABLED sendVideoStream_tick(i))

\* the video loop waits at 60 fps after a rate change while the audio loop
\* waits for its 20 ms tick
KindsIndependentWitness ==
  \E i, j \in LoopIds :
    /\ vloop[i].pc = "wait"
    /\ vloop[i].fps = 60
    /\ vloop[i].ticker = 16666666
    /\ aloop[j].pc = "wait"
    /\ aloop[j].ticker = 20000000
    /\ videoSending = 1
    /\ audioSending = 1

\* C23: the video fan-out holds the registry read lock.  From the start of
\* a tick's range to its last write the loop is among the readers of
\* m.mutex, and no caller is inside the write lock (at its insert or
\* delete) meanwhile.
FanOutHoldsReadLock ==
  \A i \in LoopIds :
    vloop[i].pc \in {"fanout", "writing"} =>
      /\ <<"v", i>> \in mutexR
      /\ mutexW = NoTask
      /\ \A t \in Tasks : task[t].pc \notin {"add_insert", "rm_delete"}

\* C24: no lock is held across an external call.  A caller inside
\* updateExtension does not hold the write lock, a loop at its source pull
\* or inside a track write is not among the readers, and whoever holds the
\* lock is at the registry statement it protects or at its unlock.
NoLockAcrossExternalCall ==
  /\ \A t \in Tasks :
       /\ task[t].pc = "add_ext" => mutexW # t
       /\ mutexW = t => task[t].pc \in {"add_insert", "add_unlock",
                                        "rm_delete", "rm_unlock"}
  /\ \A i \in LoopIds :
       /\ vloop[i].pc \in {"read", "fanout", "writing"}
            => <<"v", i>> \notin mutexR
       /\ <<"v", i>> \in mutexR => vloop[i].pc = "cnt_read"
       /\ <<"a", i>> \in mutexR => aloop[i].pc = "cnt_read"

\* a track write and an extension update are in progress while another
\* caller holds the write lock
NoLockAcrossExternalCallWitness ==
  /\ \E i \in LoopIds : vloop[i].pc = "writing"
  /\ \E t \in Tasks : task[t].pc = "add_ext"
  /\ mutexW # NoTask

\* C25: registry mutations are mutually exclusive.  A caller at its insert
\* or delete holds the write lock, alone: no other caller is at an insert
\* or delete, no reader holds the lock and no loop is inside
\* GetClientCount.
MutationsExclusive ==
  \A t \in Tasks :
    task[t].pc \in {"add_insert", "rm_delete"} =>
      /\ mutexW = t
      /\ mutexR = {}
      /\ \A u \in Tasks \ {t} :
           task[u].pc \notin {"add_insert", "add_unlock",
                              "rm_delete", "rm_unlock"}
      /\ \A i \in LoopIds :
           vloop[i].pc # "cnt_read" /\ aloop[i].pc # "cnt_read"

\* a caller is at its delete while another caller waits for the lock and
\* a video loop waits for its tick
MutationsExclusiveWitness ==
  /\ \E t \in Tasks : task[t].pc = "rm_delete"
  /\ \E u \in Tasks : task[u].pc = "add_lock"
  /\ \E i \in LoopIds : vloop[i].pc = "wait"

\* C26: Start calls never take the registry lock, and there is no
\* deadlock.  A Start call can take its swap and its go statement whoever
\* holds m.mutex, and leaves the mutex as it is; the holder of the write
\* lock is at the statement the lock protects or at its unlock and can
\* take it; a reader is inside GetClientCount and can return from it; and
\* a caller or loop that wants the lock can take it once it is free.
StartLockFree ==
  ~crashed =>
    /\ \A t \in Tasks :
         /\ (task[t].pc = "idle" /\ calls < MaxCalls)
              => /\ ENABLED (StartVideoStream_cas(t)
                             /\ mutexW' = mutexW /\ mutexR' = mutexR)
                 /\ ENABLED (StartAudioStream_cas(t)
                             /\ mutexW' = mutexW /\ mutexR' = mutexR)
         /\ task[t].pc = "sv_go"
              => ENABLED (StartVideoStream_go(t)
                          /\ mutexW' = mutexW /\ mutexR' = mutexR)
         /\ task[t].pc = "sa_go"
              => ENABLED (StartAudioStream_go(t)
                          /\ mutexW' = mutexW /\ mutexR' = mutexR)
         /\ mutexW = t
              => /\ task[t].pc \in {"add_insert", "add_unlock",
                                    "rm_delete", "rm_unlock"}
                 /\ ENABLED TaskStep(t)
         /\ (task[t].pc = "add_lock" /\ mutexW = NoTask /\ mutexR = {})
              => ENABLED AddClient_Lock(t)
    /\ \A i \in LoopIds :
         /\ <<"v", i>> \in mutexR
              => ENABLED sendVideoStream_GetClientCount(i)
         /\ <<"a", i>> \in mutexR
              => ENABLED sendAudioStream_GetClientCount(i)
         /\ (vloop[i].pc = "wait" /\ mutexW = NoTask)
              => ENABLED sendVideoStream_tick(i)
         /\ (aloop[i].pc = "wait" /\ mutexW = NoTask)
              => ENABLED sendAudioStream_tick(i)

\* a Start call is between its swap and its go statement while another
\* caller holds the write lock and a video loop waits for the lock
StartLockFreeWitness ==
  /\ \E t \in Tasks : task[t].pc = "sa_go"
  /\ \E u \in Tasks : mutexW = u /\ task[u].pc = "rm_delete"
  /\ \E i \in LoopIds : vloop[i].pc = "wait"

\* C27: the extension update precedes visibility.  Every AddClient call
\* performs client.track.updateExtension() once, as its first statement and
\* for its own session only; a session is stored in the registry only after
\* its update has completed; and every video sample is written to a
\* session whose update has completed.
ExtensionBeforeVisibility ==
  [][/\ \A t \in Tasks :
          (task[t].pc = "add_ext" /\ task'[t].pc # "add_ext")
            => /\ task[t].client \notin extDone
               /\ extDone' = extDone \cup {task[t].client}
               /\ task'[t].pc = "add_lock"
               /\ clients' = clients
     /\ extDone' # extDone
          => \E t \in Tasks : /\ task[t].pc = "add_ext"
                               /\ task'[t].pc = "add_lock"
     /\ \A h \in Handles :
          (clients'[h] # clients[h] /\ clients'[h] # NoClient)
            => clients'[h] \in extDone
     /\ \A i \in LoopIds :
          (vloop[i].pc = "fanout" /\ vloop'[i].pc = "writing")
            => vloop'[i].cur \in extDone
     /\ Len(vlog') > Len(vlog)
          => vlog'[Len(vlog')].client \in extDone]_vars

\* a sample is being written to a session whose update has completed
\* while another AddClient call has not yet finished its update
ExtensionBeforeVisibilityWitness ==
  /\ \E i \in LoopIds : /\ vloop[i].pc = "writing"
                         /\ vloop[i].cur \in extDone
  /\ \E t \in Tasks : /\ task[t].pc = "add_ext"
                       /\ task[t].client \notin extDone

\* C28: GetClientCount returns the number of distinct handles that were
\* added and not removed since.  The count a loop's GetClientCount call
\* returns is the number of handles whose last AddClient or RemoveClient
\* call to have released the lock is an AddClient; it is not negative and
\* not larger than the number of handles.
CountIsAddedNotRemoved ==
  [][\A i \in LoopIds :
       (vloop[i].pc = "cnt_read" /\ vloop'[i].pc # "cnt_read" /\ ~crashed')
         => /\ vloop'[i].n = Cardinality(hist.present)
            /\ vloop'[i].n >= 0
            /\ vloop'[i].n <= Cardinality(Handles)
            /\ hist.present = Registered]_vars

\* a GetClientCount call has returned 1 after two AddClient calls with the
\* same handle have returned
CountIsAddedNotRemovedWitness ==
  /\ \E i \in LoopIds : vloop[i].pc = "read" /\ vloop[i].n = 1
  /\ hist.addsDone = 2
  /\ hist.removed = {}
  /\ hist.present = {"ws1"}
  /\ nextClient = 2

\* C29: AddClient with a registered handle replaces the session.  The
\* assignment stores the new session under the handle, leaves every other
\* entry and the number of entries as they were, and from then on no
\* write begins to the session that was replaced: the registry never
\* holds it again.
RegisteredHandleReplaced ==
  [][/\ \A t \in Tasks :
          (/\ task[t].pc = "add_insert"
           /\ task'[t].pc = "add_unlock"
           /\ clients[task[t].ws] # NoClient)
            => /\ clients'[task[t].ws] = task[t].client
               /\ clients[task[t].ws] # task[t].client
               /\ \A h \in Handles \ {task[t].ws} : clients'[h] = clients[h]
               /\ MapLen(clients') = MapLen(clients)
               /\ clients[task[t].ws] \in hist'.replaced
     /\ \A h \in Handles : clients'[h] \notin hist'.replaced
     /\ Len(vlog') > Len(vlog)
          => vlog'[Len(vlog')].client \notin hist.replaced]_vars

\* a session that had received a unit was replaced, and a later unit
\* has been written to the session that replaced it
RegisteredHandleReplacedWitness ==
  \E j, k \in 1..Len(vlog) :
    /\ j < k
    /\ vlog[j].client \in hist.replaced
    /\ vlog[k].client \in Live
    /\ vlog[k].unit > vlog[j].unit
    /\ MapLen(clients) = 1

\* C30: every access AddClient and RemoveClient make to the registry map,
\* the len(m.clients) of their log line included, is made with the
\* registry lock held, and so overlaps no mutation by another task.
RegistryAccessUnderLock ==
  \A t \in Tasks :
    task[t].pc \in {"add_insert", "rm_delete", "add_log", "rm_log"} =>
      /\ mutexW = t
      /\ \A u \in Tasks \ {t} : task[u].pc \notin {"add_insert", "rm_delete"}

\* C31: every video sample carries the tick interval in force when it was
\* produced.  From the fan-out of a tick to its rate check, the duration
\* of the tick's sample is the loop's duration and ticker interval and is
\* floor(1 s / fps) nanoseconds for the positive fps the loop holds; every
\* write made carries floor(1 s / r) for a positive rate r, and all the
\* writes of one unit carry the same duration, so a rate change found
\* after the fan-out shows only from the next sample on.
SampleDuration ==
  /\ \A i \in LoopIds :
       vloop[i].pc \in {"fanout", "writing", "rate1", "rate2", "rate3"} =>
         /\ vloop[i].fps > 0
         /\ vloop[i].sdur * vloop[i].fps <= Second
         /\ (vloop[i].sdur + 1) * vloop[i].fps > Second
         /\ vloop[i].sdur = vloop[i].duration
         /\ vloop[i].sdur = vloop[i].ticker
         /\ \A k \in 1..Len(vlog) :
              vlog[k].unit = vloop[i].data => vlog[k].dur = vloop[i].sdur
  /\ \A k \in 1..Len(vlog) :
       /\ \E r \in Rates \ {0} : /\ vlog[k].dur * r <= Second
                                  /\ (vlog[k].dur + 1) * r > Second
       /\ \A j \in 1..Len(vlog) :
            vlog[j].unit = vlog[k].unit => vlog[j].dur = vlog[k].dur

\* a unit was written with the duration of 30 frames per second and the
\* next one, after the rate change was found, with that of 60
SampleDurationWitness ==
  \E j, k \in 1..Len(vlog) :
    /\ vlog[k].unit = vlog[j].unit + 1
    /\ vlog[j].loop = vlog[k].loop
    /\ vlog[j].dur = 33333333
    /\ vlog[k].dur = 16666666

\* ------------------------------------------- install-kvmapp.sh, do_upgrade
\* /kvmapp holds nothing, the previous installation or the new one;
\* /root/old holds nothing, the backup of an earlier upgrade or the
\* previous installation; /root/.kvmcache is absent, empty or extracted
Magics == {"504b", "1f8b", "other"}     \* first two bytes of the package

Packages == [found : BOOLEAN, magic : Magics, unzip : BOOLEAN,
             intact : BOOLEAN, extracts : BOOLEAN, moves : BOOLEAN]

\* do_upgrade is entered for a package file, with or without an
\* installation at /kvmapp and an earlier backup at /root/old
UpgradeInit ==
  /\ ManagerInit
  /\ \E k \in {"none", "old"}, b \in {"none", "stale"}, p \in Packages :
       install = [NoUpgrade EXCEPT !.pc = "stop_services", !.kvmapp = k,
                                   !.backup = b, !.pkg = p]

\* exit 1: the script ends, the directories stay as they are
Exit1(st, why) == [st EXCEPT !.pc = "failed", !.cause = why]

\* stop_services
do_upgrade_stop_services ==
  /\ install.pc = "stop_services"
  /\ install' = [install EXCEPT !.pc = "create_backup"]
  /\ UNCHANGED managerVars

\* create_backup: nothing to do without /kvmapp; otherwise the old backup
\* is removed and /kvmapp is moved to /root/old
create_backup ==
  /\ install.pc = "create_backup"
  /\ install' = IF install.kvmapp = "none"
                THEN [install EXCEPT !.pc = "verify"]
                ELSE [install EXCEPT !.pc = "verify",
                                     !.backup = install.kvmapp,
                                     !.kvmapp = "none",
                                     !.backedUp = TRUE]
  /\ UNCHANGED managerVars

\* install_kvmapp: if [ ! -f "$PACKAGE" ] ... exit 1
install_kvmapp_verify ==
  /\ install.pc = "verify"
  /\ install' = IF install.pkg.found
                THEN [install EXCEPT !.pc = "detect"]
                ELSE Exit1(install, "not_found")
  /\ UNCHANGED managerVars

\* install_kvmapp: the magic bytes are neither 504b nor 1f8b: exit 1
install_kvmapp_detect ==
  /\ install.pc = "detect"
  /\ install' = IF install.pkg.magic \in {"504b", "1f8b"}
                THEN [install EXCEPT !.pc = "cache"]
                ELSE Exit1(install, "format")
  /\ UNCHANGED managerVars

\* install_kvmapp: rm -rf "$CACHE_DIR"; mkdir -p "$CACHE_DIR"
install_kvmapp_cache ==
  /\ install.pc = "cache"
  /\ install' = [install EXCEPT !.pc = "extract", !.cache = "empty"]
  /\ UNCHANGED managerVars

\* install_kvmapp: unzip -t and unzip -o, or tar -xzf; every failure
\* removes the cache directory and exits
install_kvmapp_extract ==
  /\ install.pc = "extract"
  /\ install' =
       IF install.pkg.magic = "504b" /\ ~install.pkg.unzip
       THEN Exit1([install EXCEPT !.cache = "none"], "no_unzip")
       ELSE IF install.pkg.magic = "504b" /\ ~install.pkg.intact
       THEN Exit1([install EXCEPT !.cache = "none"], "corrupt")
       ELSE IF ~install.pkg.extracts
       THEN Exit1([install EXCEPT !.cache = "none"], "extract")
       ELSE [install EXCEPT !.pc = "move", !.cache = "files"]
  /\ UNCHANGED managerVars

\* install_kvmapp: rm -rf "$KVMAPP_DIR"; mv "$EXTRACTED_DIR" "$KVMAPP_DIR";
\* when the move fails and /root/old exists it is moved back to /kvmapp
install_kvmapp_move ==
  /\ install.pc = "move"
  /\ install' =
       IF install.pkg.moves
       THEN [install EXCEPT !.pc = "set_permissions", !.kvmapp = "new",
                            !.cache = "none"]
       ELSE IF install.backup # "none"
       THEN Exit1([install EXCEPT !.kvmapp = install.backup,
                                  !.backup = "none", !.cache = "none"],
                  "move")
       ELSE Exit1([install EXCEPT !.kvmapp = "none", !.cache = "none"],
                  "move")
  /\ UNCHANGED managerVars

\* set_permissions; start_services; verify_installation
do_upgrade_finish ==
  /\ install.pc = "set_permissions"
  /\ install' = [install EXCEPT !.pc = "done"]
  /\ UNCHANGED managerVars

UpgradeNext ==
  \/ do_upgrade_stop_services
  \/ create_backup
  \/ install_kvmapp_verify
  \/ install_kvmapp_detect
  \/ install_kvmapp_cache
  \/ install_kvmapp_extract
  \/ install_kvmapp_move
  \/ do_upgrade_finish

UpgradeSpec == UpgradeInit /\ [][UpgradeNext]_vars

\* C32: an upgrade that fails after the backup step leaves the previous
\* installation back at /kvmapp.  When the script has exited on an
\* unknown format, a corrupt archive, a failed extraction or a failed
\* move, after create_backup moved the installation away, /kvmapp holds
\* the previous installation again.
FailedUpgradeRestores ==
  (/\ install.pc = "failed"
   /\ install.backedUp
   /\ install.cause \in {"format", "corrupt", "extract", "move"})
    => install.kvmapp = "old"

\* C33: while a loop of a kind is executing, the kind's flag is 1.  In
\* every state of the running process a video loop between its go
\* statement and its end has videoSending = 1, and an audio loop
\* audioSending = 1; a flag goes from 0 to 1 in a step that starts no
\* loop, a loop starts only with the flag at 1, and a flag goes from 1 to
\* 0 only in the step that ends a loop, whose ticker is stopped by then.
FlagWhileExecuting ==
  [][/\ ~crashed' =>
          \A i \in LoopIds :
            /\ vloop'[i].pc # "none" => videoSending' = 1
            /\ aloop'[i].pc # "none" => audioSending' = 1
     /\ \A i \in LoopIds :
          /\ (vloop[i].pc = "none" /\ vloop'[i].pc # "none")
               => videoSending = 1
          /\ (aloop[i].pc = "none" /\ aloop'[i].pc # "none")
               => audioSending = 1
     /\ (videoSending = 0 /\ videoSending' = 1) => vloop' = vloop
     /\ (audioSending = 0 /\ audioSending' = 1) => aloop' = aloop
     /\ (videoSending = 1 /\ videoSending' = 0)
          => \E i \in LoopIds :
               /\ vloop[i].pc \in {"clear", "panic"}
               /\ vloop[i].pc = "clear" => vloop[i].ticker = 0
               /\ vloop'[i] = NoVideoLoop
     /\ (audioSending = 1 /\ audioSending' = 0)
          => \E i \in LoopIds :
               /\ aloop[i].pc = "clear"
               /\ aloop[i].ticker = 0
               /\ aloop'[i] = NoAudioLoop]_vars

\* a video loop has stopped its ticker and is about to clear its flag,
\* which is still 1, while an audio loop is waiting for a tick
FlagWhileExecutingWitness ==
  /\ \E i \in LoopIds : /\ vloop[i].pc = "clear"
                         /\ vloop[i].ticker = 0
  /\ videoSending = 1
  /\ \E i \in LoopIds : aloop[i].pc = "wait"
  /\ audioSending = 1

\* C34: the zero-clients check precedes the pull.  The video loop calls
\* ReadH264 only on a tick whose GetClientCount returned a count above 0,
\* once, straight after the check; a call takes at most one unit from the
\* source and nothing else takes any; a tick that found a count of 0 goes
\* on to stop the ticker and takes no unit.
CheckPrecedesPull ==
  [][/\ \A i \in LoopIds :
          /\ (vloop[i].pc # "read" /\ vloop'[i].pc = "read")
               => /\ vloop[i].pc = "cnt_read"
                  /\ vloop'[i].n = MapLen(clients)
                  /\ vloop'[i].n > 0
          /\ (vloop[i].pc = "read" /\ vloop'[i].pc # "read")
               => /\ vloop[i].n > 0
                  /\ vloop'[i].pc \in {"wait", "fanout"}
                  /\ units' \in {units, units + 1}
          /\ (vloop[i].pc = "cnt_read" /\ vloop'[i].pc # "cnt_read"
                                       /\ MapLen(clients) = 0)
               => /\ vloop'[i].pc = "stop"
                  /\ units' = units
          /\ vloop[i].pc \in {"stop", "clear"}
               => vloop'[i].pc \in {"stop", "clear", "none"}
     /\ units' # units
          => \E i \in LoopIds : /\ vloop[i].pc = "read"
                                 /\ vloop'[i].pc = "fanout"
                                 /\ vloop'[i].data = units']_vars

\* a tick has found no session and is about to stop the ticker, after an
\* earlier tick took a unit and wrote it
CheckPrecedesPullWitness ==
  /\ \E i \in LoopIds : vloop[i].pc = "stop" /\ vloop[i].n = 0
  /\ units = 1
  /\ Len(vlog) >= 1
  /\ Registered = {}

====
